---- MODULE Spec2Model ----
(***************************************************************************)
(* Model of crypto/internal/boring (rsa.go and the package's helpers) and  *)
(* of misc/boring/build.release.                                           *)
(*                                                                         *)
(* Spec        : one goroutine calling the RSA entry points of rsa.go one  *)
(*               at a time, statement by statement, next to the garbage    *)
(*               collector, which may run a key's finalizer as soon as the *)
(*               Go key object is no longer live.                          *)
(* SpecTests   : UnreachableExceptTests over bounded program names.        *)
(* SpecRelease : the build.release script, command by command.             *)
(***************************************************************************)
EXTENDS Integers, Sequences, FiniteSets

\* ------------------------------------------------------------------ bounds
\* largest high byte of a generated key component (components span 0..2 bytes)
MaxHi == 1
\* how many references to the key's RSA object leaked EVP_PKEYs may pin
MaxLeaks == 1
\* longest OAEP label handed to setupRSA
MaxLabelLen == 1
\* largest salt length handed to setupRSA
MaxSaltLen == 1
\* RSA_size of the modelled keys, in bytes
KeyBytes == 1
\* longest program name handed to UnreachableExceptTests
MaxNameLen == 6
\* most lines the RELEASES file holds before build.release runs
MaxReleases == 2

NIL == "nil"

Min(a, b) == IF a < b THEN a ELSE b

\* -------------------------------------------------------- foreign objects
\* The eight RSA components, in the order GenerateKeyRSA returns them.
CompOrder == <<"n", "e", "d", "p", "q", "dp", "dq", "qinv">>
Comps == {CompOrder[i] : i \in 1..Len(CompOrder)}

\* Foreign (C heap) objects a call can allocate: the RSA object behind a Go
\* key, the RSA object of GenerateKeyRSA, the EVP_PKEY, the EVP_PKEY_CTX, the
\* malloc'd OAEP label and the bignums of the constructors.
Objs == {"rsa", "genrsa", "pkey", "ctx", "clabel"} \cup Comps

\* heap.refs[o]      reference count of o, 0 when o is not allocated
\* heap.freeCalls[o] how often Go code called o's free function (capped at 2)
\* heap.made         the objects allocated since the current call began
\* heap.owned        <<child, parent>>: destroying parent destroys child
\* heap.bound        the EVP_PKEY holds a reference to the key's RSA object
\* heap.bad          a free function was called on an object already destroyed
EmptyHeap ==
    [refs |-> [o \in Objs |-> 0], freeCalls |-> [o \in Objs |-> 0],
     made |-> {}, owned |-> {}, bound |-> FALSE, bad |-> FALSE]

Live(h, o) == h.refs[o] > 0

Alloc(h, o) ==
    [h EXCEPT !.refs[o] = 1, !.freeCalls[o] = 0, !.made = @ \cup {o}]

AddRef(h, o) == [h EXCEPT !.refs[o] = @ + 1]

Own(h, child, parent) == [h EXCEPT !.owned = @ \cup {<<child, parent>>}]

Children(h, o) == {c \in Objs : <<c, o>> \in h.owned}

\* o's memory and that of everything o owns is released.
Destroy(h, o) ==
    LET gone == {o} \cup Children(h, o)
    IN  [h EXCEPT !.refs = [x \in Objs |-> IF x \in gone THEN 0 ELSE @[x]],
                  !.owned = {p \in @ : p[1] \notin gone /\ p[2] \notin gone}]

\* One reference to the RSA object is dropped (RSA_free, or the EVP_PKEY that
\* holds it going away); the object is destroyed with its last reference.
UnrefRSA(h, o) ==
    IF h.refs[o] > 1 THEN [h EXCEPT !.refs[o] = @ - 1] ELSE Destroy(h, o)

Unref(h, o) ==
    IF o \in {"rsa", "genrsa"} THEN UnrefRSA(h, o)
    ELSE IF o = "pkey" /\ h.bound
         THEN UnrefRSA([Destroy(h, o) EXCEPT !.bound = FALSE], "rsa")
         ELSE Destroy(h, o)

\* Go code calls o's free function (RSA_free, EVP_PKEY_free, ...).
FreeCall(h, o) ==
    LET h1 == [h EXCEPT !.freeCalls[o] = Min(@ + 1, 2),
                        !.bad = @ \/ ~Live(h, o)]
    IN  IF Live(h, o) THEN Unref(h1, o) ELSE h1

\* ------------------------------------------------------------ big integers
\* BN_num_bytes: the length of the big-endian encoding of v.
RECURSIVE BN_num_bytes(_)
BN_num_bytes(v) == IF v = 0 THEN 0 ELSE 1 + BN_num_bytes(v \div 256)

\* BN_bn2bin: the big-endian bytes of v, without leading zeros.
RECURSIVE BN_bn2bin(_)
BN_bn2bin(v) == IF v = 0 THEN <<>> ELSE Append(BN_bn2bin(v \div 256), v % 256)

\* big.Int.SetBytes: the value of a big-endian byte string.
RECURSIVE SetBytes(_)
SetBytes(raw) ==
    IF raw = <<>> THEN 0
    ELSE 256 * SetBytes(SubSeq(raw, 1, Len(raw) - 1)) + raw[Len(raw)]

\* bnToBig: raw := make([]byte, BN_num_bytes(bn)); n := BN_bn2bin(bn, raw);
\* new(big.Int).SetBytes(raw[:n]).
bnToBig(bn) ==
    LET size == BN_num_bytes(bn)
        bin  == BN_bn2bin(bn)
        n    == Len(bin)
        raw  == [i \in 1..size |-> IF i <= n THEN bin[i] ELSE 0]
    IN  SetBytes(SubSeq(raw, 1, n))

\* The keys RSA_generate_key_fips can leave in the RSA object: component i of
\* key s has the value 255 * s + i - 1 (one and two byte values, and zero).
GenSeeds == 0..MaxHi
CompIndex(c) == CHOOSE i \in 1..Len(CompOrder) : CompOrder[i] = c
GenValue(s, c) == 255 * s + CompIndex(c) - 1

\* ------------------------------------------------------------- Go program
VARIABLES
    pc,          \* the statement the goroutine executes next ("idle": no call)
    defers,      \* the deferred calls of the running function, last one first
    args,        \* the arguments of the running call
    loc,         \* its local variables and results
    heap,        \* the foreign objects
    key,         \* the Go key object (*PublicKeyRSA / *PrivateKeyRSA)
    log,         \* the foreign calls and runtime calls of the running call
    inflight,    \* a foreign call that was handed k.key has not returned yet
    strictFIPS,  \* the package variable strictFIPS
    ut,          \* UnreachableExceptTests: Enabled, runtime_arg0() and the outcome
    sh           \* the state of a run of build.release

rsaVars == <<pc, defers, args, loc, heap, key, log, inflight, strictFIPS>>
vars == <<pc, defers, args, loc, heap, key, log, inflight, strictFIPS, ut, sh>>

NoArgs ==
    [fn |-> "none", bits |-> 0, padding |-> "none", h |-> NIL, labelLen |-> 0,
     saltLen |-> 0, ch |-> NIL, init |-> "none", msgIsHashed |-> FALSE,
     sigLen |-> 0, nilArgs |-> {}]

\* pkey, ctx, err are the results of setupRSA (and the variables cryptRSA
\* assigns them to); res are the eight results of GenerateKeyRSA; bn are the
\* GO_BIGNUM pointer variables n, e, d, ... of the constructors. A *big.Int
\* result is <<>> when nil and <<v>> when it points to the value v; genkey is
\* <<s>> once RSA_generate_key_fips has left key s in the RSA object.
NoLocals ==
    [pkey |-> NIL, ctx |-> NIL, err |-> NIL, out |-> NIL,
     res |-> [c \in Comps |-> <<>>], bn |-> [c \in Comps |-> NIL],
     genkey |-> <<>>, next |-> 1, panicked |-> FALSE, ret |-> NIL,
     salt |-> 0, sigLen |-> 0]

NoKey == [kind |-> "none", fin |-> FALSE, finalized |-> FALSE,
          callerRef |-> FALSE, freedBy |-> <<>>]

Errors(e) == [loc EXCEPT !.err = e]

\* ---------------------------------------------------------- GenerateKeyRSA
\* rsa.go:25 func GenerateKeyRSA(bits int)
GenerateKeyRSA_Call ==
    /\ pc = "idle"
    /\ \E bits \in {2048, 3072} :
          args' = [NoArgs EXCEPT !.fn = "GenerateKeyRSA", !.bits = bits]
    /\ pc' = "gen_new"
    /\ UNCHANGED <<defers, loc, heap, key, log, inflight, strictFIPS, ut, sh>>

\* GenerateKeyRSA_New with the defer statement left out.
GenerateKeyRSA_NewNoDefer ==
    /\ pc = "gen_new"
    /\ \/ /\ loc' = Errors("RSA_new failed")
          /\ pc' = "exit"
          /\ UNCHANGED <<heap, defers>>
       \/ /\ heap' = Alloc(heap, "genrsa")
          /\ pc' = "gen_generate"
          /\ UNCHANGED <<loc, defers>>
    /\ log' = Append(log, "RSA_new")
    /\ UNCHANGED <<args, key, inflight, strictFIPS, ut, sh>>

\* rsa.go:30-34 key := RSA_new(); if key == nil { return bad(...) };
\* defer RSA_free(key)
GenerateKeyRSA_New ==
    /\ pc = "gen_new"
    /\ \/ /\ loc' = Errors("RSA_new failed")
          /\ pc' = "exit"
          /\ UNCHANGED <<heap, defers>>
       \/ /\ heap' = Alloc(heap, "genrsa")
          /\ defers' = <<"RSA_free(genrsa)">> \o defers
          /\ pc' = "gen_generate"
          /\ UNCHANGED loc
    /\ log' = Append(log, "RSA_new")
    /\ UNCHANGED <<args, key, inflight, strictFIPS, ut, sh>>

\* rsa.go:36-38 if RSA_generate_key_fips(key, bits, nil) == 0 { return bad(...) }
GenerateKeyRSA_Generate ==
    /\ pc = "gen_generate"
    /\ \/ /\ loc' = Errors("RSA_generate_key_fips failed")
          /\ pc' = "exit"
       \/ /\ \E s \in GenSeeds : loc' = [loc EXCEPT !.genkey = <<s>>]
          /\ pc' = "gen_get0"
    /\ log' = Append(log, "RSA_generate_key_fips")
    /\ UNCHANGED <<defers, args, heap, key, inflight, strictFIPS, ut, sh>>

\* rsa.go:40-43 RSA_get0_key, RSA_get0_factors, RSA_get0_crt_params: the
\* eight pointers into the RSA object (they stay owned by it).
GenerateKeyRSA_Get0 ==
    /\ pc = "gen_get0"
    /\ loc' = [loc EXCEPT !.bn = [c \in Comps |-> "genrsa"], !.next = 1]
    /\ log' = log \o <<"RSA_get0_key", "RSA_get0_factors", "RSA_get0_crt_params">>
    /\ pc' = "gen_copy"
    /\ UNCHANGED <<defers, args, heap, key, inflight, strictFIPS, ut, sh>>

\* What reading a bignum of the RSA object yields: its value while the
\* object is allocated, anything at all once it has been freed.
ReadBn(c) ==
    IF Live(heap, "genrsa") THEN {GenValue(loc.genkey[1], c)}
    ELSE {GenValue(s, d) : s \in GenSeeds, d \in Comps}

\* rsa.go:44 return bnToBig(n), bnToBig(e), ..., bnToBig(qinv), nil: the
\* operands are evaluated left to right, before the deferred call runs.
GenerateKeyRSA_Copy ==
    /\ pc = "gen_copy"
    /\ LET c == CompOrder[loc.next] IN
          /\ \E v \in ReadBn(c) :
                loc' = [loc EXCEPT !.res[c] = <<bnToBig(v)>>, !.next = @ + 1]
          /\ log' = Append(log, "bnToBig")
    /\ pc' = IF loc.next = Len(CompOrder) THEN "exit" ELSE "gen_copy"
    /\ UNCHANGED <<defers, args, heap, key, inflight, strictFIPS, ut, sh>>

\* ------------------------------------------------------ leaving a function
\* The object a deferred call (or a free call in the log) frees.
FreeTarget(call) ==
    CASE call = "RSA_free(genrsa)" -> "genrsa"
      [] call = "RSA_free(rsa)" -> "rsa"
      [] call = "EVP_PKEY_free" -> "pkey"
      [] call = "EVP_PKEY_CTX_free" -> "ctx"

\* A return statement has set the results; the deferred calls run, the last
\* deferred one first.
RunDeferred ==
    /\ pc = "exit"
    /\ defers # <<>>
    /\ heap' = FreeCall(heap, FreeTarget(Head(defers)))
    /\ log' = Append(log, Head(defers))
    /\ defers' = Tail(defers)
    /\ UNCHANGED <<pc, args, loc, key, inflight, strictFIPS, ut, sh>>

\* The function has returned (or panicked) to its caller.
Exit ==
    /\ pc = "exit"
    /\ defers = <<>>
    /\ pc' = "ret"
    /\ UNCHANGED <<defers, args, loc, heap, key, log, inflight, strictFIPS, ut, sh>>

\* The objects that belong to the Go key and outlive a call.
KeyObjs == IF key.kind = "none" THEN {} ELSE {"rsa"} \cup Children(heap, "rsa")

\* The caller goes on: the call's locals are gone, and foreign objects nobody
\* points to any more are lost to the program (a leaked EVP_PKEY keeps its
\* reference to the key's RSA object).
ResetCall(h) ==
    LET keep == KeyObjs IN
    [refs |-> [o \in Objs |-> IF o \in keep THEN h.refs[o] ELSE 0],
     freeCalls |-> [o \in Objs |-> IF o \in keep THEN h.freeCalls[o] ELSE 0],
     made |-> {},
     owned |-> {p \in h.owned : p[1] \in keep /\ p[2] \in keep},
     bound |-> FALSE, bad |-> FALSE]

Return ==
    /\ pc = "ret"
    /\ pc' = "idle"
    /\ args' = NoArgs
    /\ loc' = NoLocals
    /\ log' = <<>>
    /\ heap' = ResetCall(heap)
    /\ UNCHANGED <<defers, key, inflight, strictFIPS, ut, sh>>

\* ------------------------------------------- NewPublicKeyRSA, NewPrivateKeyRSA
\* The big.Int arguments a constructor converts, in the order of its || chain.
KeyComps(fn) == IF fn = "NewPublicKeyRSA" THEN <<"n", "e">> ELSE CompOrder

\* Which *big.Int arguments a caller passes as nil: none, or the public
\* exponent alone; none, or the factors and CRT values (a key without them).
NilArgSets(fn) ==
    IF fn = "NewPublicKeyRSA" THEN {{}, {"e"}}
    ELSE {{}, {"p", "q", "dp", "dq", "qinv"}}

\* rsa.go:421-436 bigToBn(bnp, b), with ptr = *bnp and bn the result of
\* BN_bin2bn (NIL when it fails). The result is the heap, *bnp and the
\* returned bool.
bigToBn(h, ptr, b, bn) ==
    LET h1 == IF ptr # NIL THEN FreeCall(h, ptr) ELSE h
    IN  IF b = NIL THEN [heap |-> h1, ptr |-> NIL, ok |-> TRUE]
        ELSE IF bn = NIL THEN [heap |-> h1, ptr |-> NIL, ok |-> FALSE]
        ELSE [heap |-> Alloc(h1, bn), ptr |-> bn, ok |-> TRUE]

\* rsa.go:51, rsa.go:80: a caller builds a key. The model follows one Go key
\* at a time: the previous one, if any, has been finalized.
NewKeyRSA_Call ==
    /\ pc = "idle"
    /\ key.kind = "none" \/ key.finalized
    /\ \E fn \in {"NewPublicKeyRSA", "NewPrivateKeyRSA"} :
          \E nils \in NilArgSets(fn) :
             args' = [NoArgs EXCEPT !.fn = fn, !.nilArgs = nils]
    /\ key' = NoKey
    /\ heap' = EmptyHeap
    /\ pc' = "new_rsa"
    /\ UNCHANGED <<defers, loc, log, inflight, strictFIPS, ut, sh>>

\* rsa.go:52-55, 81-84 key := RSA_new(); if key == nil { return nil, err }
NewKeyRSA_New ==
    /\ pc = "new_rsa"
    /\ \/ /\ loc' = Errors("RSA_new failed")
          /\ pc' = "exit"
          /\ UNCHANGED heap
       \/ /\ heap' = Alloc(heap, "rsa")
          /\ pc' = "new_get0"
          /\ UNCHANGED loc
    /\ log' = Append(log, "RSA_new")
    /\ UNCHANGED <<defers, args, key, inflight, strictFIPS, ut, sh>>

\* rsa.go:56-57, 85-88 RSA_get0_*: the fields of a new RSA object are NULL.
NewKeyRSA_Get0 ==
    /\ pc = "new_get0"
    /\ loc' = [loc EXCEPT !.bn = [c \in Comps |-> NIL], !.next = 1]
    /\ log' = Append(log, "RSA_get0")
    /\ pc' = "new_bn"
    /\ UNCHANGED <<defers, args, heap, key, inflight, strictFIPS, ut, sh>>

\* rsa.go:58-61, 89-98 one operand of the || chain: bigToBn(&c, C); the first
\* failure returns nil, NewOpenSSLError("BN_bin2bn failed").
NewKeyRSA_BigToBn ==
    /\ pc = "new_bn"
    /\ LET order == KeyComps(args.fn)
           c == order[loc.next]
           b == IF c \in args.nilArgs THEN NIL ELSE "big"
       IN  \E bn \in {NIL, c} :
             LET r == bigToBn(heap, loc.bn[c], b, bn) IN
               /\ b = NIL => bn = NIL
               /\ heap' = r.heap
               /\ IF r.ok
                  THEN /\ loc' = [loc EXCEPT !.bn[c] = r.ptr, !.next = @ + 1]
                       /\ pc' = IF loc.next = Len(order) THEN "new_set0" ELSE "new_bn"
                  ELSE /\ loc' = [loc EXCEPT !.bn[c] = r.ptr,
                                             !.err = "BN_bin2bn failed"]
                       /\ pc' = "exit"
    /\ log' = Append(log, "bigToBn")
    /\ UNCHANGED <<defers, args, key, inflight, strictFIPS, ut, sh>>

\* rsa.go:62, 99-101 RSA_set0_key (and _factors, _crt_params): the RSA object
\* takes ownership of the bignums it is given.
NewKeyRSA_Set0 ==
    /\ pc = "new_set0"
    /\ heap' = [heap EXCEPT !.owned =
                   @ \cup {<<loc.bn[c], "rsa">> : c \in {d \in Comps : loc.bn[d] # NIL}}]
    /\ log' = Append(log, "RSA_set0")
    /\ pc' = "new_final"
    /\ UNCHANGED <<defers, args, loc, key, inflight, strictFIPS, ut, sh>>

\* rsa.go:63-69, 102-108 k := &PublicKeyRSA{key: key};
\* runtime.SetFinalizer(k, finalize); return k, nil
NewKeyRSA_SetFinalizer ==
    /\ pc = "new_final"
    /\ key' = [kind |-> IF args.fn = "NewPublicKeyRSA" THEN "pub" ELSE "priv",
               fin |-> TRUE, finalized |-> FALSE, callerRef |-> TRUE,
               freedBy |-> <<>>]
    /\ loc' = [loc EXCEPT !.ret = "k"]
    /\ log' = Append(log, "SetFinalizer")
    /\ pc' = "exit"
    /\ UNCHANGED <<defers, args, heap, inflight, strictFIPS, ut, sh>>

\* ------------------------------------------------------------------ hashes
\* hash.Hash implementations and crypto.Hash identifiers a caller may pass.
HashImpls == {"sha256", "md4"}
CryptoHashes == {"SHA256", "MD4"}

\* hashToMD / cryptoHashToMD: the EVP_MD of a supported hash, nil otherwise.
hashToMD(h) == IF h = "sha256" THEN "EVP_sha256" ELSE NIL
cryptoHashToMD(ch) == IF ch = "SHA256" THEN "EVP_sha256" ELSE NIL

PKCS1 == "GO_RSA_PKCS1_PADDING"
NOPAD == "GO_RSA_NO_PADDING"
OAEP == "GO_RSA_PKCS1_OAEP_PADDING"
PSS == "GO_RSA_PKCS1_PSS_PADDING"
Paddings == {PKCS1, NOPAD, OAEP, PSS}

\* --------------------------------------------------- calls that take k.key
\* The statements that hand k.key to a foreign function, with the function.
KeyCallName(p) ==
    CASE p = "setup_set1" -> "EVP_PKEY_set1_RSA"
      [] p = "spss_size" -> "RSA_size"
      [] p = "spss_sign" -> "RSA_sign_pss_mgf1"
      [] p = "vpss_verify" -> "RSA_verify_pss_mgf1"
      [] p = "s15_size" -> "RSA_size"
      [] p = "s15_rsa_sign" -> "RSA_sign"
      [] p = "s15_evp_sign" -> "EVP_RSA_sign"
      [] p = "v15_size" -> "RSA_size"
      [] p = "v15_rsa_verify" -> "RSA_verify"
      [] p = "v15_evp_verify" -> "EVP_RSA_verify"
      [] OTHER -> NIL

\* The foreign function is entered with k.key among its arguments.
KeyCallBegin ==
    /\ KeyCallName(pc) # NIL
    /\ ~inflight
    /\ inflight' = TRUE
    /\ log' = Append(log, KeyCallName(pc))
    /\ UNCHANGED <<pc, defers, args, loc, heap, key, strictFIPS, ut, sh>>

\* ---------------------------------------------------------------- setupRSA
\* A return statement of setupRSA, `return p, c, e`, assigns the named
\* results pkey, ctx, err; the deferred closure runs next.
SetupReturn(p, c, e) ==
    /\ loc' = [loc EXCEPT !.pkey = p, !.ctx = c, !.err = e]
    /\ pc' = "setup_defer"

\* rsa.go:131-134 pkey = EVP_PKEY_new()
SetupRSA_PkeyNew ==
    /\ pc = "setup_pkey_new"
    /\ \/ /\ SetupReturn(NIL, NIL, "EVP_PKEY_new failed")
          /\ UNCHANGED heap
       \/ /\ heap' = Alloc(heap, "pkey")
          /\ loc' = [loc EXCEPT !.pkey = "pkey"]
          /\ pc' = "setup_set1"
    /\ log' = Append(log, "EVP_PKEY_new")
    /\ UNCHANGED <<defers, args, key, inflight, strictFIPS, ut, sh>>

\* rsa.go:135-137 EVP_PKEY_set1_RSA(pkey, key) returns: on success the
\* EVP_PKEY holds its own reference to the RSA object.
SetupRSA_Set1 ==
    /\ pc = "setup_set1"
    /\ inflight
    /\ inflight' = FALSE
    /\ \/ /\ SetupReturn(NIL, NIL, "EVP_PKEY_set1_RSA failed")
          /\ UNCHANGED heap
       \/ /\ heap' = [AddRef(heap, "rsa") EXCEPT !.bound = TRUE]
          /\ pc' = "setup_ctx_new"
          /\ UNCHANGED loc
    /\ UNCHANGED <<defers, args, key, log, strictFIPS, ut, sh>>

\* rsa.go:138-141 ctx = EVP_PKEY_CTX_new(pkey, nil)
SetupRSA_CtxNew ==
    /\ pc = "setup_ctx_new"
    /\ \/ /\ SetupReturn(NIL, NIL, "EVP_PKEY_CTX_new failed")
          /\ UNCHANGED heap
       \/ /\ heap' = Alloc(heap, "ctx")
          /\ loc' = [loc EXCEPT !.ctx = "ctx"]
          /\ pc' = "setup_init"
    /\ log' = Append(log, "EVP_PKEY_CTX_new")
    /\ UNCHANGED <<defers, args, key, inflight, strictFIPS, ut, sh>>

\* rsa.go:142-144 init(ctx): EVP_PKEY_decrypt_init or EVP_PKEY_encrypt_init
SetupRSA_Init ==
    /\ pc = "setup_init"
    /\ \/ /\ SetupReturn(NIL, NIL, "EVP_PKEY_operation_init failed")
       \/ /\ pc' = "setup_padding"
          /\ UNCHANGED loc
    /\ log' = Append(log, args.init)
    /\ UNCHANGED <<defers, args, heap, key, inflight, strictFIPS, ut, sh>>

\* AfterPadding with the test `padding == C.GO_RSA_PKCS1_PSS_PADDING` left out.
AfterPaddingNoPss(padding) ==
    IF padding = OAEP THEN "setup_oaep" ELSE "setup_ok"

\* rsa.go:145-147 EVP_PKEY_CTX_set_rsa_padding(ctx, padding), and the two
\* tests `padding == ...` that pick what follows (rsa.go:148, 166, 181).
AfterPadding(padding) ==
    CASE padding = OAEP -> "setup_oaep"
      [] padding = PSS -> "setup_pss"
      [] OTHER -> "setup_ok"

SetupRSA_Padding ==
    /\ pc = "setup_padding"
    /\ \/ /\ SetupReturn(NIL, NIL, "EVP_PKEY_CTX_set_rsa_padding failed")
       \/ /\ pc' = AfterPadding(args.padding)
          /\ UNCHANGED loc
    /\ log' = Append(log, "EVP_PKEY_CTX_set_rsa_padding")
    /\ UNCHANGED <<defers, args, heap, key, inflight, strictFIPS, ut, sh>>

\* rsa.go:149-155 md := hashToMD(h); EVP_PKEY_CTX_set_rsa_oaep_md(ctx, md)
SetupRSA_OaepMd ==
    /\ pc = "setup_oaep"
    /\ IF hashToMD(args.h) = NIL
       THEN /\ SetupReturn(NIL, NIL, "unsupported hash function")
            /\ UNCHANGED log
       ELSE /\ \/ SetupReturn(NIL, NIL, "EVP_PKEY_set_rsa_oaep_md failed")
               \/ /\ pc' = "setup_label"
                  /\ UNCHANGED loc
            /\ log' = Append(log, "EVP_PKEY_CTX_set_rsa_oaep_md")
    /\ UNCHANGED <<defers, args, heap, key, inflight, strictFIPS, ut, sh>>

\* rsa.go:156-164 clabel := C.malloc(len(label)); copy;
\* EVP_PKEY_CTX_set0_rsa_oaep_label(ctx, clabel, len(label)): on success ctx
\* owns the copy. (cgo's C.malloc never returns nil, so the test at rsa.go:158
\* never succeeds.)
SetupRSA_Label ==
    /\ pc = "setup_label"
    /\ \/ /\ heap' = Alloc(heap, "clabel")
          /\ SetupReturn(NIL, NIL, "EVP_PKEY_CTX_set0_rsa_oaep_label failed")
       \/ /\ heap' = Own(Alloc(heap, "clabel"), "clabel", "ctx")
          /\ pc' = "setup_ok"
          /\ UNCHANGED loc
    /\ log' = log \o <<"malloc", "EVP_PKEY_CTX_set0_rsa_oaep_label">>
    /\ UNCHANGED <<defers, args, key, inflight, strictFIPS, ut, sh>>

\* rsa.go:166-171 if saltLen != 0 { EVP_PKEY_CTX_set_rsa_pss_saltlen }
SetupRSA_PssSaltLen ==
    /\ pc = "setup_pss"
    /\ IF args.saltLen # 0
       THEN /\ \/ SetupReturn(NIL, NIL, "EVP_PKEY_set_rsa_pss_saltlen failed")
               \/ /\ pc' = "setup_mgf1"
                  /\ UNCHANGED loc
            /\ log' = Append(log, "EVP_PKEY_CTX_set_rsa_pss_saltlen")
       ELSE /\ pc' = "setup_mgf1"
            /\ UNCHANGED <<loc, log>>
    /\ UNCHANGED <<defers, args, heap, key, inflight, strictFIPS, ut, sh>>

\* rsa.go:172-178 md := cryptoHashToMD(ch); EVP_PKEY_CTX_set_rsa_mgf1_md
SetupRSA_Mgf1Md ==
    /\ pc = "setup_mgf1"
    /\ IF cryptoHashToMD(args.ch) = NIL
       THEN /\ SetupReturn(NIL, NIL, "unsupported hash function")
            /\ UNCHANGED log
       ELSE /\ \/ SetupReturn(NIL, NIL, "EVP_PKEY_set_rsa_mgf1_md failed")
               \/ /\ pc' = "setup_ok"
                  /\ UNCHANGED loc
            /\ log' = Append(log, "EVP_PKEY_CTX_set_rsa_mgf1_md")
    /\ UNCHANGED <<defers, args, heap, key, inflight, strictFIPS, ut, sh>>

\* rsa.go:181 return pkey, ctx, nil
SetupRSA_Ok ==
    /\ pc = "setup_ok"
    /\ SetupReturn(loc.pkey, loc.ctx, NIL)
    /\ UNCHANGED <<defers, args, heap, key, log, inflight, strictFIPS, ut, sh>>

\* rsa.go:118-129 the deferred closure, which reads the named results as the
\* return statement left them; then setupRSA has returned to its caller.
SetupDefer(l) ==
    LET freePkey == l.err # NIL /\ l.pkey # NIL
        freeCtx  == l.err # NIL /\ l.ctx # NIL
    IN  [pkeyFree |-> freePkey, ctxFree |-> freeCtx,
         loc |-> [l EXCEPT !.pkey = IF freePkey THEN NIL ELSE @,
                           !.ctx = IF freeCtx THEN NIL ELSE @]]

SetupRSA_Deferred ==
    /\ pc = "setup_defer"
    /\ LET d  == SetupDefer(loc)
           h1 == IF d.pkeyFree THEN FreeCall(heap, loc.pkey) ELSE heap
           h2 == IF d.ctxFree THEN FreeCall(h1, loc.ctx) ELSE h1
       IN  /\ heap' = h2
           /\ loc' = d.loc
           /\ log' = log \o (IF d.pkeyFree THEN <<"EVP_PKEY_free">> ELSE <<>>)
                         \o (IF d.ctxFree THEN <<"EVP_PKEY_CTX_free">> ELSE <<>>)
    /\ pc' = IF args.fn = "setupRSA" THEN "exit" ELSE "crypt_check"
    /\ UNCHANGED <<defers, args, key, inflight, strictFIPS, ut, sh>>

\* ---------------------------------------------------------------- cryptRSA
\* rsa.go:209-231 the six wrappers: the key they take, the padding and the
\* init / crypt functions they pass to cryptRSA.
CryptWrappers ==
    {"DecryptRSAOAEP", "EncryptRSAOAEP", "DecryptRSAPKCS1", "EncryptRSAPKCS1",
     "DecryptRSANoPadding", "EncryptRSANoPadding"}
IsDecrypt(fn) == fn \in {"DecryptRSAOAEP", "DecryptRSAPKCS1", "DecryptRSANoPadding"}
WrapperKey(fn) == IF IsDecrypt(fn) THEN "priv" ELSE "pub"
WrapperPadding(fn) ==
    CASE fn \in {"DecryptRSAOAEP", "EncryptRSAOAEP"} -> OAEP
      [] fn \in {"DecryptRSAPKCS1", "EncryptRSAPKCS1"} -> PKCS1
      [] OTHER -> NOPAD
InitOf(fn) == IF IsDecrypt(fn) THEN "EVP_PKEY_decrypt_init" ELSE "EVP_PKEY_encrypt_init"
CryptOf(init) == IF init = "EVP_PKEY_decrypt_init" THEN "EVP_PKEY_decrypt" ELSE "EVP_PKEY_encrypt"

\* A caller can hand the key to a function: it still holds it, and no more
\* than MaxLeaks references to its RSA object have been leaked so far.
CanUseKey ==
    /\ pc = "idle"
    /\ key.kind # "none"
    /\ key.callerRef
    /\ heap.refs["rsa"] <= MaxLeaks

\* rsa.go:209-231, 184-190 a wrapper calls cryptRSA, which calls setupRSA.
CryptRSA_Call ==
    /\ CanUseKey
    /\ \E fn \in CryptWrappers :
          /\ key.kind = WrapperKey(fn)
          /\ \E h \in HashImpls, n \in 0..MaxLabelLen :
                args' = [NoArgs EXCEPT
                           !.fn = fn, !.padding = WrapperPadding(fn),
                           !.h = IF WrapperPadding(fn) = OAEP THEN h ELSE NIL,
                           !.labelLen = IF WrapperPadding(fn) = OAEP THEN n ELSE 0,
                           !.init = InitOf(fn)]
    /\ pc' = "setup_pkey_new"
    /\ UNCHANGED <<defers, loc, heap, key, log, inflight, strictFIPS, ut, sh>>

\* rsa.go:115-117 setupRSA called by other code of the package, with any
\* padding, hash, label, salt length and init function.
SetupRSA_Call ==
    /\ CanUseKey
    /\ \E padding \in Paddings, h \in HashImpls \cup {NIL}, n \in 0..MaxLabelLen,
          saltLen \in 0..MaxSaltLen, ch \in CryptoHashes \cup {NIL},
          init \in {"EVP_PKEY_decrypt_init", "EVP_PKEY_encrypt_init"} :
          args' = [NoArgs EXCEPT !.fn = "setupRSA", !.padding = padding, !.h = h,
                                 !.labelLen = n, !.saltLen = saltLen, !.ch = ch,
                                 !.init = init]
    /\ pc' = "setup_pkey_new"
    /\ UNCHANGED <<defers, loc, heap, key, log, inflight, strictFIPS, ut, sh>>

\* CryptRSA_Check with the two defer statements swapped.
CryptRSA_CheckPkeyFirst ==
    /\ pc = "crypt_check"
    /\ IF loc.err # NIL
       THEN /\ pc' = "exit"
            /\ UNCHANGED defers
       ELSE /\ defers' = <<"EVP_PKEY_free", "EVP_PKEY_CTX_free">> \o defers
            /\ pc' = "crypt_len"
    /\ UNCHANGED <<args, loc, heap, key, log, inflight, strictFIPS, ut, sh>>

\* rsa.go:190-195 pkey, ctx, err := setupRSA(...); if err != nil { return
\* nil, err }; defer EVP_PKEY_free(pkey); defer EVP_PKEY_CTX_free(ctx)
CryptRSA_Check ==
    /\ pc = "crypt_check"
    /\ IF loc.err # NIL
       THEN /\ pc' = "exit"
            /\ UNCHANGED defers
       ELSE /\ defers' = <<"EVP_PKEY_CTX_free", "EVP_PKEY_free">> \o defers
            /\ pc' = "crypt_len"
    /\ UNCHANGED <<args, loc, heap, key, log, inflight, strictFIPS, ut, sh>>

\* rsa.go:197-200 crypt(ctx, nil, &outLen, in, len(in)): the length query
CryptRSA_Len ==
    /\ pc = "crypt_len"
    /\ \/ /\ loc' = Errors("EVP_PKEY_decrypt/encrypt failed")
          /\ pc' = "exit"
       \/ /\ pc' = "crypt_data"
          /\ UNCHANGED loc
    /\ log' = Append(log, CryptOf(args.init))
    /\ UNCHANGED <<defers, args, heap, key, inflight, strictFIPS, ut, sh>>

\* rsa.go:201-204 out := make([]byte, outLen); crypt(ctx, out, &outLen, ...)
CryptRSA_Data ==
    /\ pc = "crypt_data"
    /\ \/ /\ loc' = Errors("EVP_PKEY_decrypt/encrypt failed")
          /\ pc' = "exit"
       \/ /\ pc' = "crypt_keepalive"
          /\ UNCHANGED loc
    /\ log' = Append(log, CryptOf(args.init))
    /\ UNCHANGED <<defers, args, heap, key, inflight, strictFIPS, ut, sh>>

\* rsa.go:205-206 runtime.KeepAlive(gokey); return out[:outLen], nil
CryptRSA_KeepAlive ==
    /\ pc = "crypt_keepalive"
    /\ loc' = [loc EXCEPT !.out = "out"]
    /\ log' = Append(log, "KeepAlive")
    /\ pc' = "exit"
    /\ UNCHANGED <<defers, args, heap, key, inflight, strictFIPS, ut, sh>>

\* ------------------------------------------------ SignRSAPSS, VerifyRSAPSS
\* A foreign call that was handed k.key returns at statement p: with 0, and
\* the function returns the error, or with success, and it goes on at next.
KeyCallEnd(p, errmsg, next) ==
    /\ pc = p
    /\ inflight
    /\ inflight' = FALSE
    /\ \/ /\ loc' = Errors(errmsg)
          /\ pc' = "exit"
       \/ /\ pc' = next
          /\ UNCHANGED loc
    /\ UNCHANGED <<defers, args, heap, key, log, strictFIPS, ut, sh>>

\* RSA_size(k.key) returns (it cannot fail).
SizeCallEnd(p, next) ==
    /\ pc = p
    /\ inflight
    /\ inflight' = FALSE
    /\ pc' = next
    /\ UNCHANGED <<defers, args, loc, heap, key, log, strictFIPS, ut, sh>>

\* runtime.KeepAlive(k); return <result>, nil
KeepAliveReturn(p) ==
    /\ pc = p
    /\ loc' = [loc EXCEPT !.out = "out"]
    /\ log' = Append(log, "KeepAlive")
    /\ pc' = "exit"
    /\ UNCHANGED <<defers, args, heap, key, inflight, strictFIPS, ut, sh>>

\* rsa.go:251, 273 a caller signs or verifies with PSS.
PSS_Call ==
    /\ CanUseKey
    /\ \E ch \in CryptoHashes, saltLen \in 0..MaxSaltLen :
          args' = [NoArgs EXCEPT
                     !.fn = IF key.kind = "priv" THEN "SignRSAPSS" ELSE "VerifyRSAPSS",
                     !.ch = ch, !.saltLen = saltLen]
    /\ pc' = IF key.kind = "priv" THEN "spss_md" ELSE "vpss_md"
    /\ UNCHANGED <<defers, loc, heap, key, log, inflight, strictFIPS, ut, sh>>

\* rsa.go:252-258 md := cryptoHashToMD(h); if saltLen == 0 { saltLen = -1 }
SignRSAPSS_Md ==
    /\ pc = "spss_md"
    /\ IF cryptoHashToMD(args.ch) = NIL
       THEN /\ loc' = Errors("unsupported hash function")
            /\ pc' = "exit"
       ELSE /\ loc' = [loc EXCEPT !.salt = IF args.saltLen = 0 THEN -1 ELSE args.saltLen]
            /\ pc' = "spss_size"
    /\ UNCHANGED <<defers, args, heap, key, log, inflight, strictFIPS, ut, sh>>

\* rsa.go:259 out := make([]byte, RSA_size(priv.key))
SignRSAPSS_Size == SizeCallEnd("spss_size", "spss_sign")

\* rsa.go:261-267 RSA_sign_pss_mgf1(priv.key, ...) == 0
SignRSAPSS_Sign == KeyCallEnd("spss_sign", "RSA_sign_pss_mgf1 failed", "spss_keepalive")

\* rsa.go:268-270 runtime.KeepAlive(priv); return out[:outLen], nil
SignRSAPSS_KeepAlive == KeepAliveReturn("spss_keepalive")

\* rsa.go:274-280 md := cryptoHashToMD(h); if saltLen == 0 { saltLen = -2 }
VerifyRSAPSS_Md ==
    /\ pc = "vpss_md"
    /\ IF cryptoHashToMD(args.ch) = NIL
       THEN /\ loc' = Errors("unsupported hash function")
            /\ pc' = "exit"
       ELSE /\ loc' = [loc EXCEPT !.salt = IF args.saltLen = 0 THEN -2 ELSE args.saltLen]
            /\ pc' = "vpss_verify"
    /\ UNCHANGED <<defers, args, heap, key, log, inflight, strictFIPS, ut, sh>>

\* rsa.go:281-286 RSA_verify_pss_mgf1(pub.key, ...) == 0
VerifyRSAPSS_Verify == KeyCallEnd("vpss_verify", "RSA_verify_pss_mgf1 failed", "vpss_keepalive")

\* rsa.go:287-288 runtime.KeepAlive(pub); return nil
VerifyRSAPSS_KeepAlive == KeepAliveReturn("vpss_keepalive")

\* ------------------------------------- SignRSAPKCS1v15, VerifyRSAPKCS1v15
\* PanicIfStrictFIPS(msg) panics exactly when strictFIPS is set.
PanicIfStrictFIPS == strictFIPS

\* rsa.go:291, 318 a caller signs or verifies with PKCS #1 v1.5.
PKCS1v15_Call ==
    /\ CanUseKey
    /\ \E ch \in CryptoHashes, hashed \in BOOLEAN, sigLen \in 0..(KeyBytes + 1) :
          args' = [NoArgs EXCEPT
                     !.fn = IF key.kind = "priv" THEN "SignRSAPKCS1v15"
                                                 ELSE "VerifyRSAPKCS1v15",
                     !.ch = ch, !.msgIsHashed = hashed,
                     !.sigLen = IF key.kind = "priv" THEN 0 ELSE sigLen]
    /\ pc' = IF key.kind = "priv" THEN "s15_size" ELSE "v15_size"
    /\ UNCHANGED <<defers, loc, heap, key, log, inflight, strictFIPS, ut, sh>>

\* rsa.go:292 out := make([]byte, RSA_size(priv.key))
SignRSAPKCS1v15_Size == SizeCallEnd("s15_size", "s15_md")

\* rsa.go:319-325 size := RSA_size(pub.key); a shorter sig is padded with
\* leading zeros to size.
VerifyRSAPKCS1v15_Size ==
    /\ pc = "v15_size"
    /\ inflight
    /\ inflight' = FALSE
    /\ loc' = [loc EXCEPT !.sigLen = IF args.sigLen < KeyBytes THEN KeyBytes
                                                               ELSE args.sigLen]
    /\ pc' = "v15_md"
    /\ UNCHANGED <<defers, args, heap, key, log, strictFIPS, ut, sh>>

\* md := cryptoHashToMD(h); if md == nil { return error }; if msgIsHashed
Pkcs15Md(p, strict, evp) ==
    /\ pc = p
    /\ IF cryptoHashToMD(args.ch) = NIL
       THEN /\ loc' = Errors("unsupported hash function")
            /\ pc' = "exit"
       ELSE /\ pc' = IF args.msgIsHashed THEN strict ELSE evp
            /\ UNCHANGED loc
    /\ UNCHANGED <<defers, args, heap, key, log, inflight, strictFIPS, ut, sh>>

\* nid := EVP_MD_type(md) alone, PanicIfStrictFIPS left out.
Pkcs15NoStrict(p, next) ==
    /\ pc = p
    /\ log' = Append(log, "EVP_MD_type")
    /\ pc' = next
    /\ UNCHANGED <<defers, args, loc, heap, key, inflight, strictFIPS, ut, sh>>

\* PanicIfStrictFIPS("..."); nid := EVP_MD_type(md)
Pkcs15Strict(p, next) ==
    /\ pc = p
    /\ IF PanicIfStrictFIPS
       THEN /\ loc' = [loc EXCEPT !.panicked = TRUE]
            /\ log' = Append(log, "panic")
            /\ pc' = "exit"
       ELSE /\ log' = Append(log, "EVP_MD_type")
            /\ pc' = next
            /\ UNCHANGED loc
    /\ UNCHANGED <<defers, args, heap, key, inflight, strictFIPS, ut, sh>>

\* rsa.go:294-301
SignRSAPKCS1v15_Md == Pkcs15Md("s15_md", "s15_strict", "s15_evp_sign")
\* rsa.go:302-303
SignRSAPKCS1v15_Strict == Pkcs15Strict("s15_strict", "s15_rsa_sign")
\* rsa.go:304-306 RSA_sign(nid, msg, ..., priv.key) == 0
SignRSAPKCS1v15_RSASign == KeyCallEnd("s15_rsa_sign", "RSA_sign failed", "s15_keepalive1")
\* rsa.go:307-308
SignRSAPKCS1v15_KeepAlive1 == KeepAliveReturn("s15_keepalive1")
\* rsa.go:311-313 EVP_RSA_sign(md, msg, ..., priv.key) == 0
SignRSAPKCS1v15_EVPSign == KeyCallEnd("s15_evp_sign", "RSA_sign failed", "s15_keepalive2")
\* rsa.go:314-315
SignRSAPKCS1v15_KeepAlive2 == KeepAliveReturn("s15_keepalive2")

\* rsa.go:327-332
VerifyRSAPKCS1v15_Md == Pkcs15Md("v15_md", "v15_strict", "v15_evp_verify")
\* rsa.go:333-334
VerifyRSAPKCS1v15_Strict == Pkcs15Strict("v15_strict", "v15_rsa_verify")
\* rsa.go:335-337 RSA_verify(nid, msg, ..., sig, ..., pub.key) == 0
VerifyRSAPKCS1v15_RSAVerify == KeyCallEnd("v15_rsa_verify", "RSA_verify failed", "v15_keepalive1")
\* rsa.go:338-339
VerifyRSAPKCS1v15_KeepAlive1 == KeepAliveReturn("v15_keepalive1")
\* rsa.go:342-344 EVP_RSA_verify(md, msg, ..., sig, ..., pub.key) == 0
VerifyRSAPKCS1v15_EVPVerify == KeyCallEnd("v15_evp_verify", "RSA_verify failed", "v15_keepalive2")
\* rsa.go:345-346
VerifyRSAPKCS1v15_KeepAlive2 == KeepAliveReturn("v15_keepalive2")

\* ------------------------------------------------- liveness of the Go key
\* The control flow of the functions that are handed a key: the statements
\* that can follow each statement.
Succ(p) ==
    CASE p = "setup_pkey_new" -> {"setup_set1", "setup_defer"}
      [] p = "setup_set1" -> {"setup_ctx_new", "setup_defer"}
      [] p = "setup_ctx_new" -> {"setup_init", "setup_defer"}
      [] p = "setup_init" -> {"setup_padding", "setup_defer"}
      [] p = "setup_padding" -> {"setup_oaep", "setup_pss", "setup_ok", "setup_defer"}
      [] p = "setup_oaep" -> {"setup_label", "setup_defer"}
      [] p = "setup_label" -> {"setup_ok", "setup_defer"}
      [] p = "setup_pss" -> {"setup_mgf1", "setup_defer"}
      [] p = "setup_mgf1" -> {"setup_ok", "setup_defer"}
      [] p = "setup_ok" -> {"setup_defer"}
      [] p = "setup_defer" -> {"crypt_check", "exit"}
      [] p = "crypt_check" -> {"crypt_len", "exit"}
      [] p = "crypt_len" -> {"crypt_data", "exit"}
      [] p = "crypt_data" -> {"crypt_keepalive", "exit"}
      [] p = "spss_md" -> {"spss_size", "exit"}
      [] p = "spss_size" -> {"spss_sign"}
      [] p = "spss_sign" -> {"spss_keepalive", "exit"}
      [] p = "vpss_md" -> {"vpss_verify", "exit"}
      [] p = "vpss_verify" -> {"vpss_keepalive", "exit"}
      [] p = "s15_size" -> {"s15_md"}
      [] p = "s15_md" -> {"s15_strict", "s15_evp_sign", "exit"}
      [] p = "s15_strict" -> {"s15_rsa_sign", "exit"}
      [] p = "s15_rsa_sign" -> {"s15_keepalive1", "exit"}
      [] p = "s15_evp_sign" -> {"s15_keepalive2", "exit"}
      [] p = "v15_size" -> {"v15_md"}
      [] p = "v15_md" -> {"v15_strict", "v15_evp_verify", "exit"}
      [] p = "v15_strict" -> {"v15_rsa_verify", "exit"}
      [] p = "v15_rsa_verify" -> {"v15_keepalive1", "exit"}
      [] p = "v15_evp_verify" -> {"v15_keepalive2", "exit"}
      [] p \in {"crypt_keepalive", "spss_keepalive", "vpss_keepalive",
                "s15_keepalive1", "s15_keepalive2", "v15_keepalive1",
                "v15_keepalive2"} -> {"exit"}
      [] p = "exit" -> {"ret"}
      [] p = "ret" -> {"idle"}
      [] OTHER -> {}

\* The statements that mention the Go key: those that read k.key for a
\* foreign call, and the runtime.KeepAlive calls. (setupRSA and cryptRSA are
\* handed the C pointer, read by the wrapper before the call.)
KeepAlives ==
    {"crypt_keepalive", "spss_keepalive", "vpss_keepalive", "s15_keepalive1",
     "s15_keepalive2", "v15_keepalive1", "v15_keepalive2"}
KeyReads ==
    {"spss_size", "spss_sign", "vpss_verify", "s15_size", "s15_rsa_sign",
     "s15_evp_sign", "v15_size", "v15_rsa_verify", "v15_evp_verify"}

\* KeyUses with the runtime.KeepAlive calls left out.
KeyUsesNoKeepAlive == KeyReads

KeyUses == KeyReads \cup KeepAlives

RECURSIVE ReachFrom(_)
ReachFrom(S) ==
    LET T == S \cup UNION {Succ(p) : p \in S}
    IN  IF T = S THEN S ELSE ReachFrom(T)

\* The key is live in the running function: a statement that mentions it can
\* still be reached. While a foreign call is in flight the statement at pc
\* has already read its operands.
KeyLive ==
    LET from == IF inflight THEN Succ(pc) ELSE {pc}
    IN  ReachFrom(from) \cap KeyUses # {}

\* ------------------------------------------------------ garbage collector
\* The caller's last use of the key is behind it.
DropRef ==
    /\ key.kind # "none"
    /\ key.callerRef
    /\ key' = [key EXCEPT !.callerRef = FALSE]
    /\ UNCHANGED <<pc, defers, args, loc, heap, log, inflight, strictFIPS, ut, sh>>

\* rsa.go:72-74, 111-113 the collector finds the key unreachable and runs
\* its finalizer, once: RSA_free(k.key).
Finalize ==
    /\ key.kind # "none"
    /\ key.fin
    /\ ~key.callerRef
    /\ ~KeyLive
    /\ heap' = FreeCall(heap, "rsa")
    /\ key' = [key EXCEPT !.fin = FALSE, !.finalized = TRUE,
                          !.freedBy = Append(@, "finalize")]
    /\ UNCHANGED <<pc, defers, args, loc, log, inflight, strictFIPS, ut, sh>>

\* ----------------------------------------------------------- specification
NoTest == [Enabled |-> FALSE, name |-> <<>>, fn |-> "none", result |-> "none"]
NoShell == [pc |-> "off"]

\* rsa.go:368-377 var strictFIPS = false; opensslInit() may turn it on.
Init ==
    /\ pc = "idle"
    /\ defers = <<>>
    /\ args = NoArgs
    /\ loc = NoLocals
    /\ heap = EmptyHeap
    /\ key = NoKey
    /\ log = <<>>
    /\ inflight = FALSE
    /\ strictFIPS \in BOOLEAN
    /\ ut = NoTest
    /\ sh = NoShell

Next ==
    \/ GenerateKeyRSA_Call \/ GenerateKeyRSA_New \/ GenerateKeyRSA_Generate
    \/ GenerateKeyRSA_Get0 \/ GenerateKeyRSA_Copy
    \/ NewKeyRSA_Call \/ NewKeyRSA_New \/ NewKeyRSA_Get0 \/ NewKeyRSA_BigToBn
    \/ NewKeyRSA_Set0 \/ NewKeyRSA_SetFinalizer
    \/ CryptRSA_Call \/ SetupRSA_Call \/ KeyCallBegin
    \/ SetupRSA_PkeyNew \/ SetupRSA_Set1 \/ SetupRSA_CtxNew \/ SetupRSA_Init
    \/ SetupRSA_Padding \/ SetupRSA_OaepMd \/ SetupRSA_Label
    \/ SetupRSA_PssSaltLen \/ SetupRSA_Mgf1Md \/ SetupRSA_Ok \/ SetupRSA_Deferred
    \/ CryptRSA_Check \/ CryptRSA_Len \/ CryptRSA_Data \/ CryptRSA_KeepAlive
    \/ PSS_Call \/ SignRSAPSS_Md \/ SignRSAPSS_Size \/ SignRSAPSS_Sign
    \/ SignRSAPSS_KeepAlive \/ VerifyRSAPSS_Md \/ VerifyRSAPSS_Verify
    \/ VerifyRSAPSS_KeepAlive
    \/ PKCS1v15_Call \/ SignRSAPKCS1v15_Size \/ SignRSAPKCS1v15_Md
    \/ SignRSAPKCS1v15_Strict \/ SignRSAPKCS1v15_RSASign
    \/ SignRSAPKCS1v15_KeepAlive1 \/ SignRSAPKCS1v15_EVPSign
    \/ SignRSAPKCS1v15_KeepAlive2
    \/ VerifyRSAPKCS1v15_Size \/ VerifyRSAPKCS1v15_Md
    \/ VerifyRSAPKCS1v15_Strict \/ VerifyRSAPKCS1v15_RSAVerify
    \/ VerifyRSAPKCS1v15_KeepAlive1 \/ VerifyRSAPKCS1v15_EVPVerify
    \/ VerifyRSAPKCS1v15_KeepAlive2
    \/ RunDeferred \/ Exit \/ Return \/ DropRef \/ Finalize

Spec == Init /\ [][Next]_vars

\* Every step of the goroutine follows the control flow Succ describes.
FollowsControlFlow ==
    [][pc' # pc /\ Succ(pc) # {} => pc' \in Succ(pc)]_vars

\* ------------------------------------------------------------ rsa.go claims
Positions(call) == {i \in 1..Len(log) : log[i] = call}
Called(call) == Positions(call) # {}

KeyCallNames ==
    {"EVP_PKEY_set1_RSA", "RSA_size", "RSA_sign_pss_mgf1", "RSA_verify_pss_mgf1",
     "RSA_sign", "RSA_verify", "EVP_RSA_sign", "EVP_RSA_verify"}

\* The functions C1 names (cryptRSA through its wrappers).
KeyFns ==
    CryptWrappers \cup {"SignRSAPSS", "VerifyRSAPSS", "SignRSAPKCS1v15",
                        "VerifyRSAPKCS1v15"}

\* Every foreign call that took k.key has a later runtime.KeepAlive.
EveryKeyCallKeptAlive ==
    \A i \in 1..Len(log) :
       log[i] \in KeyCallNames => \E j \in (i + 1)..Len(log) : log[j] = "KeepAlive"

\* The RSA object of a key is freed by the finalizer alone, at most once, and
\* not while a foreign call that was handed k.key is in flight.
FreedByFinalizerOnly ==
    /\ key.kind # "none" =>
          /\ heap.freeCalls["rsa"] = Len(key.freedBy)
          /\ Len(key.freedBy) <= 1
          /\ \A i \in 1..Len(key.freedBy) : key.freedBy[i] = "finalize"
    /\ inflight => ~key.finalized /\ Live(heap, "rsa")

Pkcs15Fns == {"SignRSAPKCS1v15", "VerifyRSAPKCS1v15"}
Pkcs15Raw == {"RSA_sign", "RSA_verify"}
Pkcs15Evp == {"EVP_RSA_sign", "EVP_RSA_verify"}
CalledAny(S) == \E c \in S : Called(c)
FreeNames == {"RSA_free(genrsa)", "RSA_free(rsa)", "EVP_PKEY_free",
              "EVP_PKEY_CTX_free", "BN_free"}

\* C2: with a supported hash, SignRSAPKCS1v15 / VerifyRSAPKCS1v15 with
\* msgIsHashed panic under strictFIPS before RSA_sign / RSA_verify is called,
\* do not panic without strictFIPS and then call RSA_sign / RSA_verify; with
\* msgIsHashed false the strictness check is not reached and EVP_RSA_sign /
\* EVP_RSA_verify is called.
C2_StrictFIPSPanics ==
    args.fn \in Pkcs15Fns /\ cryptoHashToMD(args.ch) # NIL =>
       /\ args.msgIsHashed /\ strictFIPS =>
             /\ ~CalledAny(Pkcs15Raw \cup Pkcs15Evp)
             /\ pc = "ret" => loc.panicked
       /\ args.msgIsHashed /\ ~strictFIPS =>
             /\ ~loc.panicked
             /\ ~CalledAny(Pkcs15Evp)
             /\ pc = "ret" => CalledAny(Pkcs15Raw)
       /\ ~args.msgIsHashed =>
             /\ ~loc.panicked
             /\ pc \notin {"s15_strict", "v15_strict"}
             /\ ~CalledAny(Pkcs15Raw)
             /\ pc = "ret" => CalledAny(Pkcs15Evp)

\* A strict-mode call with a hashed message has ended in a panic.
C2_Witness ==
    /\ pc = "ret"
    /\ args.fn \in Pkcs15Fns
    /\ args.msgIsHashed
    /\ strictFIPS
    /\ loc.panicked

\* setupRSA has just returned to its caller.
AfterSetupRSA ==
    \/ pc = "crypt_check"
    \/ args.fn = "setupRSA" /\ pc = "exit"

SetupObjs == {"pkey", "ctx", "clabel"}

\* C7: when setupRSA returns an error, each foreign object it allocated has
\* been freed exactly once and the returned pkey and ctx are nil; when it
\* returns no error, pkey and ctx are non-nil and not freed.
C7_SetupFreesOnError ==
    AfterSetupRSA =>
       /\ loc.err # NIL =>
             /\ \A o \in heap.made \cap SetupObjs : ~Live(heap, o)
             /\ \A o \in heap.made \cap {"pkey", "ctx"} : heap.freeCalls[o] = 1
             /\ ~heap.bad
             /\ loc.pkey = NIL /\ loc.ctx = NIL
       /\ loc.err = NIL =>
             /\ loc.pkey # NIL /\ loc.ctx # NIL
             /\ Live(heap, "pkey") /\ Live(heap, "ctx")
             /\ heap.freeCalls["pkey"] = 0 /\ heap.freeCalls["ctx"] = 0

NewKeyFns == {"NewPublicKeyRSA", "NewPrivateKeyRSA"}

\* C8: when a constructor returns an error, the RSA object and every bignum
\* it allocated have been freed and no finalizer is registered; only on
\* success does an RSA object stay allocated, owned by the key.
C8_ConstructorFreesOnError ==
    pc = "ret" /\ args.fn \in NewKeyFns =>
       /\ loc.err # NIL =>
             /\ \A o \in heap.made : ~Live(heap, o)
             /\ key.kind = "none" /\ ~key.fin
       /\ loc.err = NIL =>
             /\ Live(heap, "rsa")
             /\ key.kind # "none" /\ key.fin

\* setupRSA succeeded in the running call of cryptRSA.
SetupSucceeded == loc.pkey # NIL

\* C9: in cryptRSA, after setupRSA succeeded, the ctx and the pkey are each
\* freed exactly once on every return path, the ctx first; after setupRSA
\* failed cryptRSA frees nothing; nothing is freed twice.
C9_CryptFreesOnce ==
    args.fn \in CryptWrappers =>
       /\ ~heap.bad
       /\ \A o \in Objs : heap.freeCalls[o] <= 1
       /\ pc \in {"exit", "ret"} /\ ~SetupSucceeded =>
             /\ defers = <<>>
             /\ heap.freeCalls["pkey"] = 0 /\ heap.freeCalls["ctx"] = 0
       /\ pc = "ret" /\ SetupSucceeded =>
             /\ heap.freeCalls["ctx"] = 1 /\ heap.freeCalls["pkey"] = 1
             /\ \A i \in Positions("EVP_PKEY_CTX_free"),
                   j \in Positions("EVP_PKEY_free") : i < j

\* cryptRSA has returned an error after setupRSA succeeded, both objects freed.
C9_Witness ==
    /\ pc = "ret"
    /\ args.fn \in CryptWrappers
    /\ SetupSucceeded
    /\ loc.err # NIL
    /\ heap.freeCalls["ctx"] = 1 /\ heap.freeCalls["pkey"] = 1

\* C10: in GenerateKeyRSA, once RSA_new succeeded the RSA object is freed
\* exactly once on every return path, on success only after all eight
\* components were copied out of it; when RSA_new fails nothing is freed; on
\* failure the eight results are nil and err is not, on success err is nil.
C10_GenerateFreesOnce ==
    args.fn = "GenerateKeyRSA" =>
       /\ ~heap.bad
       /\ heap.freeCalls["genrsa"] <= 1
       /\ pc = "ret" =>
             /\ "genrsa" \in heap.made =>
                   heap.freeCalls["genrsa"] = 1 /\ ~Live(heap, "genrsa")
             /\ "genrsa" \notin heap.made => ~CalledAny(FreeNames)
             /\ loc.genkey = <<>> =>
                   /\ loc.err # NIL
                   /\ \A c \in Comps : loc.res[c] = <<>>
             /\ loc.genkey # <<>> =>
                   /\ loc.err = NIL
                   /\ \A c \in Comps : loc.res[c] = <<GenValue(loc.genkey[1], c)>>
                   /\ Cardinality(Positions("bnToBig")) = Len(CompOrder)
                   /\ \A i \in Positions("bnToBig"),
                         j \in Positions("RSA_free(genrsa)") : i < j

\* GenerateKeyRSA has returned a key and freed the RSA object.
C10_Witness ==
    /\ pc = "ret"
    /\ args.fn = "GenerateKeyRSA"
    /\ loc.err = NIL
    /\ loc.res["qinv"] # <<>>
    /\ heap.freeCalls["genrsa"] = 1

\* The calls by which setupRSA builds and configures the context.
SetupCallNames ==
    {"EVP_PKEY_new", "EVP_PKEY_set1_RSA", "EVP_PKEY_CTX_new",
     "EVP_PKEY_decrypt_init", "EVP_PKEY_encrypt_init",
     "EVP_PKEY_CTX_set_rsa_padding", "EVP_PKEY_CTX_set_rsa_oaep_md", "malloc",
     "EVP_PKEY_CTX_set0_rsa_oaep_label", "EVP_PKEY_CTX_set_rsa_pss_saltlen",
     "EVP_PKEY_CTX_set_rsa_mgf1_md"}

\* The functions that run setupRSA.
SetupFns == CryptWrappers \cup {"setupRSA"}

\* The configuration calls the running call has made so far, in order.
SetupLog == LET IsSetupCall(c) == c \in SetupCallNames IN SelectSeq(log, IsSetupCall)

IsPrefix(s, t) == Len(s) <= Len(t) /\ s = SubSeq(t, 1, Len(s))

\* The calls every padding needs, and those of OAEP and of PSS.
SetupCommon ==
    <<"EVP_PKEY_new", "EVP_PKEY_set1_RSA", "EVP_PKEY_CTX_new", args.init,
      "EVP_PKEY_CTX_set_rsa_padding">>
SetupOaep == <<"EVP_PKEY_CTX_set_rsa_oaep_md", "malloc", "EVP_PKEY_CTX_set0_rsa_oaep_label">>
SetupPss ==
    (IF args.saltLen # 0 THEN <<"EVP_PKEY_CTX_set_rsa_pss_saltlen">> ELSE <<>>)
       \o <<"EVP_PKEY_CTX_set_rsa_mgf1_md">>
SetupExpected ==
    SetupCommon \o (CASE args.padding = OAEP -> SetupOaep
                      [] args.padding = PSS -> SetupPss
                      [] OTHER -> <<>>)

\* C11: setupRSA makes its calls in the order new pkey, bind the RSA key, new
\* ctx, operation init, set padding; a setup that succeeds has then set the
\* OAEP digest and label exactly when the padding is OAEP, the MGF1 digest
\* exactly when it is PSS, and the PSS salt length exactly when it is PSS
\* with a nonzero saltLen; with PKCS1 or no padding no statement that reads
\* the hash, label or salt length is reached; an unsupported hash under OAEP
\* (h) or PSS (ch) makes setupRSA return an error.
C11_SetupConfigOrder ==
    args.fn \in SetupFns =>
       /\ IsPrefix(SetupLog, SetupExpected)
       /\ AfterSetupRSA /\ loc.err = NIL =>
             /\ SetupLog = SetupExpected
             /\ Called("EVP_PKEY_CTX_set_rsa_oaep_md") <=> args.padding = OAEP
             /\ Called("EVP_PKEY_CTX_set0_rsa_oaep_label") <=> args.padding = OAEP
             /\ Called("EVP_PKEY_CTX_set_rsa_mgf1_md") <=> args.padding = PSS
             /\ Called("EVP_PKEY_CTX_set_rsa_pss_saltlen")
                   <=> args.padding = PSS /\ args.saltLen # 0
       /\ args.padding \in {PKCS1, NOPAD} =>
             /\ pc \notin {"setup_oaep", "setup_label", "setup_pss", "setup_mgf1"}
             /\ Len(SetupLog) <= Len(SetupCommon)
             /\ loc.err # "unsupported hash function"
       /\ /\ AfterSetupRSA
          /\ \/ args.padding = OAEP /\ hashToMD(args.h) = NIL
             \/ args.padding = PSS /\ cryptoHashToMD(args.ch) = NIL
          => loc.err # NIL

\* setupRSA has succeeded for PSS with a nonzero salt length: the salt length
\* and the MGF1 digest are set.
C11_Witness ==
    /\ AfterSetupRSA
    /\ args.fn \in SetupFns
    /\ loc.err = NIL
    /\ args.padding = PSS
    /\ args.saltLen # 0
    /\ Called("EVP_PKEY_CTX_set_rsa_pss_saltlen")
    /\ Called("EVP_PKEY_CTX_set_rsa_mgf1_md")

\* ------------------------------------------------- UnreachableExceptTests
\* Strings are sequences of one-character strings.
NameChars == {"_", ".", "t", "e", "s", "a"}
Names == UNION {[1..n -> NameChars] : n \in 0..MaxNameLen}

\* rsa.go:391-393 hasSuffix(s, t)
hasSuffix(s, t) ==
    Len(s) > Len(t) /\ SubSeq(s, Len(s) - Len(t) + 1, Len(s)) = t

\* rsa.go:382-386 Unreachable()
Unreachable ==
    /\ ut.result = "none"
    /\ ut' = [ut EXCEPT !.fn = "Unreachable",
                        !.result = IF ut.Enabled THEN "panic" ELSE "return"]
    /\ UNCHANGED <<pc, defers, args, loc, heap, key, log, inflight, strictFIPS, sh>>

\* rsa.go:397-404 UnreachableExceptTests()
UnreachableExceptTests ==
    /\ ut.result = "none"
    /\ ut' = [ut EXCEPT
                !.fn = "UnreachableExceptTests",
                !.result = IF /\ ut.Enabled
                              /\ ~hasSuffix(ut.name, <<"_", "t", "e", "s", "t">>)
                              /\ ~hasSuffix(ut.name, <<".", "t", "e", "s", "t">>)
                           THEN "panic" ELSE "return"]
    /\ UNCHANGED <<pc, defers, args, loc, heap, key, log, inflight, strictFIPS, sh>>

\* The caller has recovered or gone on; the next call can be made.
UnreachableDone ==
    /\ ut.result # "none"
    /\ ut' = [ut EXCEPT !.fn = "none", !.result = "none"]
    /\ UNCHANGED <<pc, defers, args, loc, heap, key, log, inflight, strictFIPS, sh>>

InitTests ==
    /\ pc = "idle"
    /\ defers = <<>>
    /\ args = NoArgs
    /\ loc = NoLocals
    /\ heap = EmptyHeap
    /\ key = NoKey
    /\ log = <<>>
    /\ inflight = FALSE
    /\ strictFIPS = FALSE
    /\ \E en \in BOOLEAN, n \in Names :
          ut = [Enabled |-> en, name |-> n, fn |-> "none", result |-> "none"]
    /\ sh = NoShell

NextTests == Unreachable \/ UnreachableExceptTests \/ UnreachableDone

SpecTests == InitTests /\ [][NextTests]_vars

\* s ends in t.
EndsIn(s, t) ==
    Len(s) >= Len(t) /\ SubSeq(s, Len(s) - Len(t) + 1, Len(s)) = t

\* C3: UnreachableExceptTests panics exactly when BoringCrypto is enabled and
\* the program name does not end in "_test" or ".test"; it returns for every
\* name that ends in "_test" or ".test", and whenever Enabled is false.
C3_PanicsUnlessTest ==
    ut.fn = "UnreachableExceptTests" =>
       (ut.result = "panic" <=>
           /\ ut.Enabled
           /\ ~EndsIn(ut.name, <<"_", "t", "e", "s", "t">>)
           /\ ~EndsIn(ut.name, <<".", "t", "e", "s", "t">>))

\* ----------------------------------------------------------- build.release
\* Text is a sequence of one-character strings. Versions are made of letters,
\* digits and dots, as release tags and the VERSION file are.
Bases == {<<"g", "o", "1", ".", "9">>, <<"g", "o", "1", "2", "9">>}
Borings == {<<"4">>, <<"5">>}
Commits == {<<"c", "0">>}

\* The lines build.release writes to RELEASES (build.release:103-104).
ReleaseLine(version, commit, target, url, sha) ==
    version \o <<" ">> \o commit \o <<" ">> \o target \o <<" ">> \o url
            \o <<" ">> \o sha

BinLine(version, commit) == ReleaseLine(version, commit, <<"l", "i", "n", "u", "x", "-", "a", "m", "d", "6", "4">>, <<"u">>, <<"h">>)
SrcLine(version, commit) == ReleaseLine(version, commit, <<"s", "r", "c">>, <<"u">>, <<"h">>)

\* What RELEASES can hold when the script starts: lines of earlier releases.
OldLines == {BinLine(b \o <<"b">> \o v, c) : b \in Bases, v \in Borings, c \in Commits}
OldReleases == UNION {[1..n -> OldLines] : n \in 0..MaxReleases}

\* grep and egrep, for the patterns the script uses: an ordinary character
\* matches itself, "." matches any character, "\" makes the next character
\* ordinary. MatchAt: pattern pat from its i-th character on matches line at j.
RECURSIVE MatchAt(_, _, _, _)
MatchAt(pat, i, line, j) ==
    IF i > Len(pat) THEN TRUE
    ELSE IF pat[i] = "\\"
         THEN /\ j <= Len(line)
              /\ line[j] = pat[i + 1]
              /\ MatchAt(pat, i + 2, line, j + 1)
         ELSE /\ j <= Len(line)
              /\ pat[i] = "." \/ pat[i] = line[j]
              /\ MatchAt(pat, i + 1, line, j + 1)

\* grep "^pat" file: some line matches pat at its start.
GrepAnchored(pat, file) == \E k \in 1..Len(file) : MatchAt(pat, 1, file[k], 1)

\* grep pat file: some line matches pat somewhere.
Grep(pat, lines) ==
    \E line \in lines : \E j \in 1..Len(line) : MatchAt(pat, 1, line, j)

\* build.release:87 the pattern of grep; build.release:91 the one of egrep.
SigPattern == <<"c", "r", "y", "p", "t", "o", "/", "i", "n", "t", "e", "r", "n", "a", "l", "/", "b", "o", "r", "i", "n", "g", "/", "s", "i", "g", ".", "B", "o", "r", "i", "n", "g", "C", "r", "y", "p", "t", "o">>
DigestPattern == <<"c", "r", "y", "p", "t", "o", "/", "s", "h", "a", "2", "5", "6", "\\", ".", "\\", "(", "\\", "*", "d", "i", "g", "e", "s", "t", "\\", ")">>

\* Lines `go tool nm` can print for the built go command.
NmLines ==
    {<<"T", " ", "c", "r", "y", "p", "t", "o", "/", "i", "n", "t", "e", "r", "n", "a", "l", "/", "b", "o", "r", "i", "n", "g", "/", "s", "i", "g", ".", "B", "o", "r", "i", "n", "g", "C", "r", "y", "p", "t", "o">>,
     <<"T", " ", "c", "r", "y", "p", "t", "o", "/", "i", "n", "t", "e", "r", "n", "a", "l", "/", "b", "o", "r", "i", "n", "g", "/", "s", "i", "g", "/", "B", "o", "r", "i", "n", "g", "C", "r", "y", "p", "t", "o", ".", "i", "n", "i", "t">>,
     <<"T", " ", "c", "r", "y", "p", "t", "o", "/", "s", "h", "a", "2", "5", "6", ".", "(", "*", "d", "i", "g", "e", "s", "t", ")", ".", "W", "r", "i", "t", "e">>,
     <<"T", " ", "m", "a", "i", "n", ".", "m", "a", "i", "n">>}

\* A command run under `set -e` failed: the script exits with its status.
FailStatuses == {1, 2}

ShellStart(n, old) ==
    [pc |-> "args", nargs |-> n, commit |-> <<>>, base |-> <<>>, boring |-> <<>>,
     version |-> <<>>, old |-> old, releases |-> old, tools |-> FALSE,
     built |-> {}, nm |-> {}, uploaded |-> {}, status |-> 0, exitAt |-> "none"]

ShExit(st) == sh' = [sh EXCEPT !.pc = "done", !.status = st, !.exitAt = sh.pc]
ShFail == \E st \in FailStatuses : ShExit(st)
ShGoto(p) == sh' = [sh EXCEPT !.pc = p]

\* build.release:13-21 case "$#"
Sh_Args ==
    /\ sh.pc = "args"
    /\ IF sh.nargs <= 1 THEN ShGoto("commit") ELSE ShExit(2)
    /\ UNCHANGED <<rsaVars, ut>>

\* build.release:24-28 commit=$(git rev-parse "$rev" | awk ...)
Sh_Commit ==
    /\ sh.pc = "commit"
    /\ \/ ShExit(2)
       \/ \E c \in Commits : sh' = [sh EXCEPT !.pc = "base", !.commit = c]
    /\ UNCHANGED <<rsaVars, ut>>

\* build.release:31-35 base=$(git log ... | grep 'tag: go' | sed ...)
Sh_Base ==
    /\ sh.pc = "base"
    /\ \/ ShExit(2)
       \/ \E b \in Bases : sh' = [sh EXCEPT !.pc = "boring", !.base = b]
    /\ UNCHANGED <<rsaVars, ut>>

\* build.release:38-42 boring=$(git show "$commit:misc/boring/VERSION")
Sh_Boring ==
    /\ sh.pc = "boring"
    /\ \/ ShFail
       \/ ShExit(2)
       \/ \E v \in Borings : sh' = [sh EXCEPT !.pc = "check", !.boring = v]
    /\ UNCHANGED <<rsaVars, ut>>

\* Sh_Check without the test of RELEASES.
Sh_CheckSkipped ==
    /\ sh.pc = "check"
    /\ sh' = [sh EXCEPT !.version = sh.base \o <<"b">> \o sh.boring, !.pc = "show"]
    /\ UNCHANGED <<rsaVars, ut>>

\* build.release:44-49 version="${base}b${boring}";
\* if grep "^$version " RELEASES; then exit 2
Sh_Check ==
    /\ sh.pc = "check"
    /\ LET version == sh.base \o <<"b">> \o sh.boring IN
          IF GrepAnchored(version \o <<" ">>, sh.releases)
          THEN sh' = [sh EXCEPT !.version = version, !.pc = "done", !.status = 2,
                                !.exitAt = "check"]
          ELSE sh' = [sh EXCEPT !.version = version, !.pc = "show"]
    /\ UNCHANGED <<rsaVars, ut>>

\* build.release:53-57 echo ...; git log -n1 "$commit"
Sh_Show ==
    /\ sh.pc = "show"
    /\ ShFail \/ ShGoto("tools")
    /\ UNCHANGED <<rsaVars, ut>>

\* build.release:60-64 dir=$(mktemp -d); go get golang.org/x/build/cmd/release
Sh_Tools ==
    /\ sh.pc = "tools"
    /\ \/ ShFail
       \/ sh' = [sh EXCEPT !.pc = "build_bin", !.tools = TRUE]
    /\ UNCHANGED <<rsaVars, ut>>

\* build.release:75 $dir/release -target linux-amd64
Sh_BuildBin ==
    /\ sh.pc = "build_bin"
    /\ \/ ShFail
       \/ sh' = [sh EXCEPT !.pc = "build_src", !.built = @ \cup {"linux-amd64"}]
    /\ UNCHANGED <<rsaVars, ut>>

\* build.release:76-82 $dir/release -target src; ls -l; sha
Sh_BuildSrc ==
    /\ sh.pc = "build_src"
    /\ \/ ShFail
       \/ sh' = [sh EXCEPT !.pc = "nm", !.built = @ \cup {"src"}]
    /\ UNCHANGED <<rsaVars, ut>>

\* build.release:84-86 tar -xzf "$output" -O go/bin/go; go tool nm
Sh_Nm ==
    /\ sh.pc = "nm"
    /\ \/ ShFail
       \/ \E lines \in SUBSET NmLines : sh' = [sh EXCEPT !.pc = "grep_sig", !.nm = lines]
    /\ UNCHANGED <<rsaVars, ut>>

\* build.release:87-90 if ! grep crypto/internal/boring/sig.BoringCrypto
Sh_GrepSig ==
    /\ sh.pc = "grep_sig"
    /\ IF ~Grep(SigPattern, sh.nm) THEN ShExit(2) ELSE ShGoto("grep_digest")
    /\ UNCHANGED <<rsaVars, ut>>

\* build.release:91-94 if egrep 'crypto/sha256\.\(\*digest\)'
Sh_GrepDigest ==
    /\ sh.pc = "grep_digest"
    /\ IF Grep(DigestPattern, sh.nm) THEN ShExit(2) ELSE ShGoto("upload_bin")
    /\ UNCHANGED <<rsaVars, ut>>

\* build.release:97-98 gsutil cp "$output" gs://go-boringcrypto/
Sh_UploadBin ==
    /\ sh.pc = "upload_bin"
    /\ \/ ShFail
       \/ sh' = [sh EXCEPT !.pc = "upload_src", !.uploaded = @ \cup {"linux-amd64"}]
    /\ UNCHANGED <<rsaVars, ut>>

\* build.release:99-100 gsutil cp "$outputsrc" gs://go-boringcrypto/
Sh_UploadSrc ==
    /\ sh.pc = "upload_src"
    /\ \/ ShFail
       \/ sh' = [sh EXCEPT !.pc = "record", !.uploaded = @ \cup {"src"}]
    /\ UNCHANGED <<rsaVars, ut>>

\* build.release:103-104 echo "$version $commit ..." >>RELEASES, twice
Sh_Record ==
    /\ sh.pc = "record"
    /\ sh' = [sh EXCEPT !.pc = "done", !.status = 0, !.exitAt = "end",
                        !.releases = @ \o <<BinLine(sh.version, sh.commit),
                                            SrcLine(sh.version, sh.commit)>>]
    /\ UNCHANGED <<rsaVars, ut>>

InitRelease ==
    /\ pc = "idle"
    /\ defers = <<>>
    /\ args = NoArgs
    /\ loc = NoLocals
    /\ heap = EmptyHeap
    /\ key = NoKey
    /\ log = <<>>
    /\ inflight = FALSE
    /\ strictFIPS = FALSE
    /\ ut = NoTest
    /\ \E n \in 0..2, old \in OldReleases : sh = ShellStart(n, old)

NextRelease ==
    \/ Sh_Args \/ Sh_Commit \/ Sh_Base \/ Sh_Boring \/ Sh_Check \/ Sh_Show
    \/ Sh_Tools \/ Sh_BuildBin \/ Sh_BuildSrc \/ Sh_Nm \/ Sh_GrepSig
    \/ Sh_GrepDigest \/ Sh_UploadBin \/ Sh_UploadSrc \/ Sh_Record

SpecRelease == InitRelease /\ [][NextRelease]_vars

\* ----------------------------------------------------- build.release claims
\* line starts with the text t.
StartsWith(line, t) == Len(line) >= Len(t) /\ SubSeq(line, 1, Len(t)) = t

\* line contains the text t.
Contains(line, t) ==
    \E j \in 1..(Len(line) - Len(t) + 1) : SubSeq(line, j, j + Len(t) - 1) = t

\* RELEASES held a line of the computed version when the script started.
AlreadyReleased ==
    /\ sh.version # <<>>
    /\ \E k \in 1..Len(sh.old) : StartsWith(sh.old[k], sh.version \o <<" ">>)

\* C5: if RELEASES already contains a line starting with the computed
\* version followed by a space, build.release exits with status 2 before it
\* builds, uploads or appends to RELEASES.
C5_NoRerelease ==
    AlreadyReleased =>
       /\ sh.pc = "done" /\ sh.status = 2 /\ sh.exitAt = "check"
       /\ ~sh.tools /\ sh.built = {} /\ sh.uploaded = {}
       /\ sh.releases = sh.old

\* The script has stopped at the test of RELEASES.
C5_Witness ==
    /\ AlreadyReleased
    /\ sh.pc = "done"
    /\ sh.status = 2
    /\ Len(sh.old) = MaxReleases

SigSymbol == <<"c", "r", "y", "p", "t", "o", "/", "i", "n", "t", "e", "r", "n", "a", "l", "/", "b", "o", "r", "i", "n", "g", "/", "s", "i", "g", ".", "B", "o", "r", "i", "n", "g", "C", "r", "y", "p", "t", "o">>
DigestSymbol == <<"c", "r", "y", "p", "t", "o", "/", "s", "h", "a", "2", "5", "6", ".", "(", "*", "d", "i", "g", "e", "s", "t", ")">>

\* The nm listing names the symbol sig.BoringCrypto and no sha256.(*digest).
HasSigNoDigest ==
    /\ \E line \in sh.nm : Contains(line, SigSymbol)
    /\ ~\E line \in sh.nm : Contains(line, DigestSymbol)

\* C6: build.release uploads nothing unless the go command of the built
\* archive contains the symbol crypto/internal/boring/sig.BoringCrypto and no
\* crypto/sha256.(*digest) symbol; when either check fails it exits with
\* status 2, nothing uploaded and RELEASES unchanged.
C6_UploadNeedsSymbols ==
    sh.pc # "off" =>
       /\ sh.uploaded # {} => HasSigNoDigest
       /\ sh.exitAt \in {"grep_sig", "grep_digest"} =>
             sh.status = 2 /\ sh.uploaded = {} /\ sh.releases = sh.old

====
